---- MODULE Spec2Model ----
(***************************************************************************)
(* Model of the Flux file converter (src/main.py): the upload and convert  *)
(* handlers, the five backend adapters, the PDF fallback chain and the     *)
(* output reconciliation of the office and poppler adapters.               *)
(*                                                                         *)
(* Strings are sequences of one-character strings, so that lower-casing,   *)
(* dot stripping, suffix/stem extraction and path comparison are computed  *)
(* as the code computes them.                                              *)
(***************************************************************************)
EXTENDS Integers, Sequences, FiniteSets, TLC

VARIABLES
    caps,       \* HAS_PILLOW / HAS_PANDAS / HAS_PDFIUM, fixed at import time
    fs,         \* the filesystem: path -> file record
    pc,         \* position of the convert request in flight
    req,        \* the locals convert_file derived for the request in flight
    world,      \* how the backends behaved during the adapter call of the request in flight
    log,        \* backend invocations of the request in flight, in order
    result,     \* the HTTP outcome of the request in flight
    upl,        \* the response of the last upload
    nreq,       \* convert requests started so far
    given,      \* the arguments a function of the module is called with
    got,        \* what the call returned, as a list of one (empty before the call)
    jobs        \* two convert requests running side by side: locals and position

vars == <<caps, fs, pc, req, world, log, result, upl, nreq, given, got, jobs>>

\* the state of the server, and the state of the calls studied on their own
server == <<caps, fs, pc, req, world, log, result, upl, nreq>>
calls == <<given, got, jobs>>

None == "None"

\* ------------------------------------------------------------------ bounds
\* convert requests in one run
MaxRequests == 2

\* --------------------------------------------------------- str primitives
UpperCase == <<"A","B","C","D","E","F","G","H","I","J","K","L","M",
               "N","O","P","Q","R","S","T","U","V","W","X","Y","Z">>
LowerCase == <<"a","b","c","d","e","f","g","h","i","j","k","l","m",
               "n","o","p","q","r","s","t","u","v","w","x","y","z">>

\* str.lower() on one character
LowerChar(c) ==
    IF \E i \in DOMAIN UpperCase : UpperCase[i] = c
    THEN LowerCase[CHOOSE i \in DOMAIN UpperCase : UpperCase[i] = c]
    ELSE c

\* str.lower()
Lower(s) == [i \in DOMAIN s |-> LowerChar(s[i])]

\* str.lstrip(".")
RECURSIVE LStripDots(_)
LStripDots(s) ==
    IF s # <<>> /\ Head(s) = "." THEN LStripDots(Tail(s)) ELSE s

\* str.rfind("."), 1-based, 0 when there is no dot
RFindDot(s) ==
    IF \E i \in DOMAIN s : s[i] = "."
    THEN CHOOSE i \in DOMAIN s : s[i] = "." /\ \A j \in DOMAIN s : s[j] = "." => j <= i
    ELSE 0

\* pathlib: PurePath(name).suffix -- the last dot and what follows it, unless
\* the dot is the first or the last character of the name
Suffix(name) ==
    LET i == RFindDot(name)
    IN IF 1 < i /\ i < Len(name) THEN SubSeq(name, i, Len(name)) ELSE <<>>

\* pathlib: PurePath(name).stem
Stem(name) ==
    LET i == RFindDot(name)
    IN IF 1 < i /\ i < Len(name) THEN SubSeq(name, 1, i - 1) ELSE name

\* the entries of a list
Range(seq) == {seq[i] : i \in DOMAIN seq}

\* a path is its directory and its final component
Path(dir, name) == [dir |-> dir, name |-> name]

UPLOAD_DIR == "uploads"
OUTPUT_DIR == "outputs"

\* ------------------------------------------------------------ the catalog
png  == <<"p","n","g">>
jpg  == <<"j","p","g">>
jpeg == <<"j","p","e","g">>
webp == <<"w","e","b","p">>
pdf  == <<"p","d","f">>
tiff == <<"t","i","f","f">>
tif  == <<"t","i","f">>
bmp  == <<"b","m","p">>
gif  == <<"g","i","f">>
ico  == <<"i","c","o">>
mp3  == <<"m","p","3">>
wav  == <<"w","a","v">>
ogg  == <<"o","g","g">>
flac == <<"f","l","a","c">>
aac  == <<"a","a","c">>
m4a  == <<"m","4","a">>
wma  == <<"w","m","a">>
mp4  == <<"m","p","4">>
webm == <<"w","e","b","m">>
avi  == <<"a","v","i">>
mov  == <<"m","o","v">>
mkv  == <<"m","k","v">>
wmv  == <<"w","m","v">>
flv  == <<"f","l","v">>
csv  == <<"c","s","v">>
xlsx == <<"x","l","s","x">>
xls  == <<"x","l","s">>
txt  == <<"t","x","t">>
odt  == <<"o","d","t">>
docx == <<"d","o","c","x">>
doc  == <<"d","o","c">>
html == <<"h","t","m","l">>
rtf  == <<"r","t","f">>
pptx == <<"p","p","t","x">>
ppt  == <<"p","p","t">>
odp  == <<"o","d","p">>

Categories ==
    {"image", "audio", "video", "spreadsheet", "document", "presentation",
     "pdf", "unknown"}

\* FORMAT_MAP.get(category, [])
FORMAT_MAP(category) ==
    CASE category = "image" -> <<png, jpg, jpeg, webp, pdf, tiff, tif, bmp, gif, ico>>
      [] category = "audio" -> <<mp3, wav, ogg, flac, aac, m4a>>
      [] category = "video" -> <<mp4, webm, gif, avi, mov, mkv>>
      [] category = "spreadsheet" -> <<csv, xlsx, xls, pdf>>
      [] category = "document" -> <<pdf, txt, odt, docx, html, rtf>>
      [] category = "presentation" -> <<pdf, pptx, odp>>
      [] category = "pdf" -> <<png, jpg, jpeg, webp, txt>>
      [] OTHER -> <<>>

\* EXT_TO_CATEGORY, None when the extension is not a key
EXT_TO_CATEGORY(ext) ==
    CASE ext \in {jpg, jpeg, png, gif, webp, tiff, tif, bmp} -> "image"
      [] ext \in {mp3, wav, ogg, flac, aac, m4a, wma} -> "audio"
      [] ext \in {mp4, webm, avi, mov, mkv, wmv, flv} -> "video"
      [] ext \in {csv, xlsx, xls} -> "spreadsheet"
      [] ext \in {docx, doc, txt, odt} -> "document"
      [] ext \in {pptx, ppt, odp} -> "presentation"
      [] ext = pdf -> "pdf"
      [] OTHER -> None

\* a mime string is its part before the first slash and its part after it;
\* NoSlash as the second part stands for a string that holds no slash
NoSlash == "<no slash>"
Mime(type, subtype) == [type |-> type, subtype |-> subtype]
\* None or the empty string: both are false in "if mime:"
NoMime == [type |-> "", subtype |-> NoSlash]

\* mime.startswith(prefix + "/")
StartsWithSlash(mime, prefix) == mime.type = prefix /\ mime.subtype # NoSlash

\* MIME_TO_CATEGORY, None when the mime string is not a key
MIME_TO_CATEGORY(mime) ==
    CASE mime \in {Mime("image", NoSlash), Mime("audio", NoSlash), Mime("video", NoSlash)}
            -> mime.type
      [] mime = Mime("application", "pdf") -> "pdf"
      [] mime \in {Mime("application", "vnd.openxmlformats-officedocument.spreadsheetml.sheet"),
                   Mime("application", "vnd.ms-excel"),
                   Mime("text", "csv")} -> "spreadsheet"
      [] mime \in {Mime("application", "vnd.openxmlformats-officedocument.wordprocessingml.document"),
                   Mime("application", "msword"),
                   Mime("text", "plain")} -> "document"
      [] mime \in {Mime("application", "vnd.openxmlformats-officedocument.presentationml.presentation"),
                   Mime("application", "vnd.ms-powerpoint")} -> "presentation"
      [] OTHER -> None

\* EXT_ALIASES.get(clean, clean)
EXT_ALIASES(clean) ==
    CASE clean = jpeg -> jpg
      [] clean = tif -> tiff
      [] OTHER -> clean

\* normalize_ext taking one leading dot off, not all of them
normalize_ext_one_dot(ext) ==
    LET low == Lower(ext)
    IN EXT_ALIASES(IF low # <<>> /\ Head(low) = "." THEN Tail(low) ELSE low)

normalize_ext(ext) == EXT_ALIASES(LStripDots(Lower(ext)))

\* detect_category asking the mime type before the extension
detect_category_mime_first(filename, mime) ==
    LET ext == Lower(LStripDots(Suffix(filename)))
    IN IF mime # NoMime /\ StartsWithSlash(mime, "image") THEN "image"
       ELSE IF mime # NoMime /\ StartsWithSlash(mime, "audio") THEN "audio"
       ELSE IF mime # NoMime /\ StartsWithSlash(mime, "video") THEN "video"
       ELSE IF mime # NoMime /\ MIME_TO_CATEGORY(mime) # None THEN MIME_TO_CATEGORY(mime)
       ELSE IF EXT_TO_CATEGORY(ext) # None THEN EXT_TO_CATEGORY(ext)
       ELSE "unknown"

detect_category(filename, mime) ==
    LET ext == Lower(LStripDots(Suffix(filename)))
    IN IF EXT_TO_CATEGORY(ext) # None THEN EXT_TO_CATEGORY(ext)
       ELSE IF mime # NoMime /\ StartsWithSlash(mime, "image") THEN "image"
       ELSE IF mime # NoMime /\ StartsWithSlash(mime, "audio") THEN "audio"
       ELSE IF mime # NoMime /\ StartsWithSlash(mime, "video") THEN "video"
       ELSE IF mime # NoMime /\ MIME_TO_CATEGORY(mime) # None THEN MIME_TO_CATEGORY(mime)
       ELSE "unknown"

\* ------------------------------------------------- files, errors, events
NoPath == Path("", <<>>)

\* a file as written by `by` during convert request number nreq (0: an
\* upload); partial when the writer was stopped before it finished
File(by, partial) == [by |-> by, req |-> nreq, partial |-> partial]

exists(fsv, path) == path \in DOMAIN fsv

\* open(path, "w") ... close(): the file at path is created or replaced
write(fsv, path, file) ==
    [p \in DOMAIN fsv \cup {path} |-> IF p = path THEN file ELSE fsv[p]]

\* os.rename / os.replace on a POSIX filesystem: the source name goes away,
\* the destination name holds the source's file
move(fsv, from, to) ==
    [p \in (DOMAIN fsv \ {from}) \cup {to} |-> IF p = to THEN fsv[from] ELSE fsv[p]]

\* an exception: its class, str(e) as a sequence of words, and the value
\* formatted into the message, when there is one
Exc(type, msg, arg) == [type |-> type, msg |-> msg, arg |-> arg]
NoExc == Exc(None, <<>>, <<>>)

\* str(subprocess.TimeoutExpired(cmd, timeout))
TimeoutExpired(cmd, seconds) ==
    Exc("TimeoutExpired", <<"Command", cmd, "timed", "out", "after", seconds, "seconds">>, <<>>)

\* what subprocess.run raises when the executable is not on the PATH
FileNotFound(cmd) ==
    Exc("FileNotFoundError", <<"[Errno", "2]", "No", "such", "file", "or", "directory:", cmd>>, <<>>)

RuntimeError(msg, arg) == Exc("RuntimeError", msg, arg)

\* one backend invocation as the log records it: the backend, how it ended,
\* and the path it wrote to (NoPath when it wrote nothing)
Event(tool, out, wrote) == [tool |-> tool, out |-> out, wrote |-> wrote]

\* what a call hands back: the filesystem after it, the invocations it made,
\* the exception it raised (NoExc when it returned) and its return value
Ret(fsv, events, exc, value) == [fs |-> fsv, log |-> events, exc |-> exc, ret |-> value]

\* how an external command can end
ToolOutcomes == {"absent", "timeout", "nonzero", "exit0"}

\* ------------------------------------------------------------ the adapters
\* env: the behaviour of the image library on this call
ImageEnvs == {"open_error", "save_error", "ok"}

convert_image(fsv, src, dst, target, env) ==
    IF ~caps.pillow
    THEN Ret(fsv, <<>>, RuntimeError(<<"Pillow", "not", "installed">>, <<>>), None)
    ELSE IF env = "open_error"
    THEN Ret(fsv, <<Event("pillow", "open_error", NoPath)>>,
             Exc("UnidentifiedImageError", <<"cannot", "identify", "image", "file">>, src.name), None)
    ELSE IF env = "save_error"
    THEN Ret(fsv, <<Event("pillow", "save_error", NoPath)>>,
             Exc("OSError", <<"cannot", "write", "image">>, <<>>), None)
    ELSE Ret(write(fsv, dst, File("pillow", FALSE)),
             <<Event("pillow", "ok", dst)>>, NoExc, None)

\* env.out: how ffmpeg ended; env.wrote: whether it had written to dst by then
MediaEnvs ==
    {e \in [out : ToolOutcomes, wrote : BOOLEAN] : e.out = "absent" => ~e.wrote}

convert_media(fsv, src, dst, target, env) ==
    LET after == IF env.wrote
                 THEN write(fsv, dst, File("ffmpeg", env.out # "exit0"))
                 ELSE fsv
        ev == <<Event("ffmpeg", env.out, IF env.wrote THEN dst ELSE NoPath)>>
    IN CASE env.out = "absent" -> Ret(fsv, ev, FileNotFound("ffmpeg"), None)
         [] env.out = "timeout" -> Ret(after, ev, TimeoutExpired("ffmpeg", "300"), None)
         [] env.out = "nonzero" ->
                Ret(after, ev, RuntimeError(<<"ffmpeg", "error:", "stderr[-500:]">>, <<>>), None)
         [] OTHER -> Ret(after, ev, NoExc, None)

\* fmt_map.get(target, target): every key of the table maps to itself
lo_format_of(target) == target

\* reconcile_office with the rename left out
reconcile_office_never(fsv, expected, dst, renameOk) == Ret(fsv, <<>>, NoExc, None)

\* lines 302-305: the converter named its output after the source's stem;
\* move it to dst when it is there and dst is another path.
\* renameOk: whether the operating system lets the rename through
reconcile_office(fsv, expected, dst, renameOk) ==
    IF exists(fsv, expected) /\ expected # dst
    THEN IF renameOk
         THEN Ret(move(fsv, expected, dst), <<Event("rename", "ok", dst)>>, NoExc, None)
         ELSE Ret(fsv, <<Event("rename", "error", NoPath)>>,
                  Exc("OSError", <<"rename", "failed">>, <<>>), None)
    ELSE Ret(fsv, <<>>, NoExc, None)

\* env.out: how libreoffice ended; env.wrote: whether it had written its
\* output file by then; env.renameOk as in reconcile_office
OfficeEnvs ==
    {e \in [out : ToolOutcomes, wrote : BOOLEAN, renameOk : BOOLEAN] :
        /\ e.out = "absent" => ~e.wrote
        /\ ~(e.out = "exit0" /\ e.wrote) => e.renameOk}

NoOfficeEnv == [out |-> "absent", wrote |-> FALSE, renameOk |-> TRUE]

convert_office(fsv, src, dst, target, env) ==
    LET lo_format == lo_format_of(target)
        expected == Path(dst.dir, Stem(src.name) \o <<".">> \o lo_format)
        after == IF env.wrote
                 THEN write(fsv, expected, File("libreoffice", env.out # "exit0"))
                 ELSE fsv
        ev == <<Event("libreoffice", env.out, IF env.wrote THEN expected ELSE NoPath)>>
    IN CASE env.out = "absent" -> Ret(fsv, ev, FileNotFound("libreoffice"), None)
         [] env.out = "timeout" -> Ret(after, ev, TimeoutExpired("libreoffice", "120"), None)
         [] env.out = "nonzero" ->
                Ret(after, ev, RuntimeError(<<"LibreOffice", "error:", "stderr[-500:]">>, <<>>), None)
         [] OTHER ->
                LET r == reconcile_office(after, expected, dst, env.renameOk)
                IN Ret(r.fs, ev \o r.log, r.exc, None)

\* env.read, env.write: whether pandas reads the source and writes the
\* target; env.office: the behaviour of the office converter, when called
\* (held fixed for the targets that do not reach it)
SpreadsheetEnvs(target) ==
    {e \in [read : BOOLEAN, write : BOOLEAN,
            office : IF target = pdf THEN OfficeEnvs ELSE {NoOfficeEnv}] :
        ~e.read => (e.write /\ e.office = NoOfficeEnv)}

convert_spreadsheet(fsv, src, dst, target, env) ==
    LET reader == IF Lower(Suffix(src.name)) = <<".">> \o csv
                  THEN "pandas.read_csv" ELSE "pandas.read_excel"
    IN IF ~caps.pandas
       THEN Ret(fsv, <<>>, RuntimeError(<<"pandas", "not", "installed">>, <<>>), None)
       ELSE IF ~env.read
       THEN Ret(fsv, <<Event(reader, "error", NoPath)>>,
                Exc("ParserError", <<"Error", "tokenizing", "data">>, <<>>), None)
       ELSE LET rd == <<Event(reader, "ok", NoPath)>>
            IN CASE target \in {csv, xlsx} ->
                      LET writer == IF target = csv THEN "pandas.to_csv" ELSE "pandas.to_excel"
                      IN IF env.write
                         THEN Ret(write(fsv, dst, File(writer, FALSE)),
                                  rd \o <<Event(writer, "ok", dst)>>, NoExc, None)
                         ELSE Ret(fsv, rd \o <<Event(writer, "error", NoPath)>>,
                                  Exc("OSError", <<"cannot", "write", "table">>, <<>>), None)
                 [] target = pdf ->
                      LET r == convert_office(fsv, src, dst, pdf, env.office)
                      IN Ret(r.fs, rd \o r.log, r.exc, None)
                 [] OTHER ->
                      Ret(fsv, rd,
                          RuntimeError(<<"Unsupported", "spreadsheet", "target:">>, target), None)


\* env.out: how pdftoppm ended; env.wrote: the name it had written its page
\* image under by then ("none", prefix + its usual extension for the format,
\* or prefix + ".jpeg"); env.moveOk: whether the operating system lets
\* candidate.replace(dst) through
PopplerEnvs(target) ==
    {e \in [out : ToolOutcomes, wrote : {"none", "usual", "jpeg"}, moveOk : BOOLEAN] :
        /\ e.out = "absent" => e.wrote = "none"
        /\ e.wrote = "jpeg" => target = jpg
        /\ e.out # "exit0" => e.moveOk}

NoPopplerEnv == [out |-> "absent", wrote |-> "none", moveOk |-> TRUE]

\* the candidate list of lines 344-346
poppler_candidates(dst, target) ==
    <<Path(dst.dir, Stem(dst.name) \o <<".">> \o target)>>
    \o (IF target = jpg THEN <<Path(dst.dir, Stem(dst.name) \o <<".">> \o jpeg)>> ELSE <<>>)

\* lines 347-351 and 354: the first candidate that exists is moved to dst
\* (unless it is dst) and the backend reports success
poppler_collect(fsv, dst, target, moveOk, ev) ==
    LET cands == poppler_candidates(dst, target)
        hits == {i \in DOMAIN cands : exists(fsv, cands[i])}
    IN IF hits = {}
       THEN Ret(fsv, <<Event("pdftoppm", "no_candidate", ev.wrote)>>, NoExc, FALSE)
       ELSE LET c == cands[CHOOSE i \in hits : \A j \in hits : i <= j]
            IN IF c = dst
               THEN Ret(fsv, <<Event("pdftoppm", "ok", ev.wrote)>>, NoExc, TRUE)
               ELSE IF moveOk
               THEN Ret(move(fsv, c, dst), <<Event("pdftoppm", "ok", ev.wrote)>>, NoExc, TRUE)
               ELSE Ret(fsv, <<Event("pdftoppm", "move_error", ev.wrote)>>,
                        Exc("PermissionError", <<"[Errno", "13]", "Permission", "denied">>, <<>>),
                        None)

\* convert_pdf_with_poppler raising on a non-zero exit, as the other adapters do
convert_pdf_with_poppler_raises(fsv, src, dst, target, env) ==
    LET usual == IF target = jpg THEN jpg ELSE target
        out_path == Path(dst.dir, Stem(dst.name) \o <<".">> \o
                                  (IF env.wrote = "jpeg" THEN jpeg ELSE usual))
        after == IF env.wrote # "none"
                 THEN write(fsv, out_path, File("pdftoppm", env.out # "exit0"))
                 ELSE fsv
        ev == Event("pdftoppm", env.out, IF env.wrote # "none" THEN out_path ELSE NoPath)
    IN CASE env.out = "absent" -> Ret(fsv, <<ev>>, NoExc, FALSE)
         [] env.out = "timeout" -> Ret(after, <<ev>>, TimeoutExpired("pdftoppm", "60"), None)
         [] env.out = "nonzero" ->
                Ret(after, <<ev>>, RuntimeError(<<"pdftoppm", "error:", "stderr">>, <<>>), None)
         [] OTHER -> poppler_collect(after, dst, target, env.moveOk, ev)

\* convert_pdf_with_poppler catching every exception, the timeout included
convert_pdf_with_poppler_swallows(fsv, src, dst, target, env) ==
    LET usual == IF target = jpg THEN jpg ELSE target
        out_path == Path(dst.dir, Stem(dst.name) \o <<".">> \o
                                  (IF env.wrote = "jpeg" THEN jpeg ELSE usual))
        after == IF env.wrote # "none"
                 THEN write(fsv, out_path, File("pdftoppm", env.out # "exit0"))
                 ELSE fsv
        ev == Event("pdftoppm", env.out, IF env.wrote # "none" THEN out_path ELSE NoPath)
    IN CASE env.out = "absent" -> Ret(fsv, <<ev>>, NoExc, FALSE)
         [] env.out = "timeout" -> Ret(after, <<ev>>, NoExc, FALSE)
         [] env.out = "nonzero" -> Ret(after, <<ev>>, NoExc, FALSE)
         [] OTHER -> poppler_collect(after, dst, target, env.moveOk, ev)

convert_pdf_with_poppler(fsv, src, dst, target, env) ==
    LET poppler_target == IF target = jpg THEN jpeg ELSE target
        \* pdftoppm appends its own extension to the prefix: png for -png,
        \* jpg for -jpeg
        usual == IF poppler_target = jpeg THEN jpg ELSE poppler_target
        out_path == Path(dst.dir, Stem(dst.name) \o <<".">> \o
                                  (IF env.wrote = "jpeg" THEN jpeg ELSE usual))
        after == IF env.wrote # "none"
                 THEN write(fsv, out_path, File("pdftoppm", env.out # "exit0"))
                 ELSE fsv
        ev == Event("pdftoppm", env.out, IF env.wrote # "none" THEN out_path ELSE NoPath)
    IN CASE env.out = "absent" -> Ret(fsv, <<ev>>, NoExc, FALSE)
         [] env.out = "timeout" -> Ret(after, <<ev>>, TimeoutExpired("pdftoppm", "60"), None)
         [] env.out = "nonzero" -> Ret(after, <<ev>>, NoExc, FALSE)
         [] OTHER -> poppler_collect(after, dst, target, env.moveOk, ev)

\* the behaviour of pypdfium2 and of the image library on this call:
\* the document does not open, has no pages, does not render, the image
\* does not save, or all of it works
PdfiumEnvs == {"open_error", "no_pages", "render_error", "save_error", "ok"}

\* convert_pdf_with_pdfium closing the document at the end of the try block
\* instead of in a finally clause
convert_pdf_with_pdfium_leaks(fsv, src, dst, target, env) ==
    LET open == Event("pdfium.open", "ok", NoPath)
        close == Event("pdfium.close", "ok", NoPath)
    IN IF ~caps.pdfium
       THEN Ret(fsv, <<Event("pdfium", "unavailable", NoPath)>>, NoExc, FALSE)
       ELSE CASE env = "open_error" ->
                    Ret(fsv, <<Event("pdfium.open", "error", NoPath)>>, NoExc, FALSE)
              [] env = "no_pages" ->
                    Ret(fsv, <<open, Event("pdfium.len", "0", NoPath)>>, NoExc, FALSE)
              [] env = "render_error" ->
                    Ret(fsv, <<open, Event("pdfium.len", "1", NoPath),
                               Event("pdfium.render", "error", NoPath)>>, NoExc, FALSE)
              [] OTHER ->
                    LET rendered == <<open, Event("pdfium.len", "1", NoPath),
                                      Event("pdfium.render", "ok", NoPath)>>
                    IN IF target \notin {jpg, png, webp}
                       THEN Ret(fsv, rendered, NoExc, FALSE)
                       ELSE IF env = "save_error"
                       THEN Ret(fsv, rendered \o <<Event("pdfium.save", "error", NoPath)>>,
                                NoExc, FALSE)
                       ELSE Ret(write(fsv, dst, File("pdfium", FALSE)),
                                rendered \o <<Event("pdfium.save", "ok", dst), close>>,
                                NoExc, TRUE)

convert_pdf_with_pdfium(fsv, src, dst, target, env) ==
    LET open == Event("pdfium.open", "ok", NoPath)
        close == Event("pdfium.close", "ok", NoPath)
    IN IF ~caps.pdfium
       THEN Ret(fsv, <<Event("pdfium", "unavailable", NoPath)>>, NoExc, FALSE)
       ELSE CASE env = "open_error" ->
                    Ret(fsv, <<Event("pdfium.open", "error", NoPath)>>, NoExc, FALSE)
              [] env = "no_pages" ->
                    \* RuntimeError("PDF has no pages") is raised inside the try
                    \* block and caught by its "except Exception"
                    Ret(fsv, <<open, Event("pdfium.len", "0", NoPath), close>>, NoExc, FALSE)
              [] env = "render_error" ->
                    Ret(fsv, <<open, Event("pdfium.len", "1", NoPath),
                               Event("pdfium.render", "error", NoPath), close>>, NoExc, FALSE)
              [] OTHER ->
                    LET rendered == <<open, Event("pdfium.len", "1", NoPath),
                                      Event("pdfium.render", "ok", NoPath)>>
                    IN IF target \notin {jpg, png, webp}
                       THEN Ret(fsv, rendered \o <<close>>, NoExc, FALSE)
                       ELSE IF env = "save_error"
                       THEN Ret(fsv, rendered \o <<Event("pdfium.save", "error", NoPath), close>>,
                                NoExc, FALSE)
                       ELSE Ret(write(fsv, dst, File("pdfium", FALSE)),
                                rendered \o <<Event("pdfium.save", "ok", dst), close>>,
                                NoExc, TRUE)

\* env.out: how pdftotext ended; env.wrote: whether it had written dst by then
TextEnvs ==
    {e \in [out : ToolOutcomes, wrote : BOOLEAN] : e.out = "absent" => ~e.wrote}

NoTextEnv == [out |-> "absent", wrote |-> FALSE]

pdf_to_text(fsv, src, dst, env) ==
    LET after == IF env.wrote
                 THEN write(fsv, dst, File("pdftotext", env.out # "exit0"))
                 ELSE fsv
        ev == <<Event("pdftotext", env.out, IF env.wrote THEN dst ELSE NoPath)>>
    IN CASE env.out = "absent" -> Ret(fsv, ev, FileNotFound("pdftotext"), None)
         [] env.out = "timeout" -> Ret(after, ev, TimeoutExpired("pdftotext", "60"), None)
         [] env.out = "nonzero" ->
                Ret(after, ev, RuntimeError(<<"pdftotext", "error:", "stderr">>, <<>>), None)
         [] OTHER -> Ret(after, ev, NoExc, None)

NoBackendMessage ==
    <<"No", "PDF-to-image", "backend", "available.", "Install", "poppler",
      "(pdftoppm)", "or", "pypdfium2.">>

WebpMessage == <<"PDF", "to", "WEBP", "requires", "pypdfium2.">>

\* env: the behaviour of each backend convert_pdf may call for this target
\* (the parts the target's branch does not read are held fixed, and so is
\* the behaviour of pypdfium2 when it is not installed)
PdfEnvs(target) ==
    LET pdfiumEnvs == IF caps.pdfium THEN PdfiumEnvs ELSE {"ok"}
    IN CASE target \in {png, jpg} ->
               [poppler : PopplerEnvs(target), pdfium : pdfiumEnvs, text : {NoTextEnv}]
         [] target = txt ->
               [poppler : {NoPopplerEnv}, pdfium : {"ok"}, text : TextEnvs]
         [] OTHER ->
               [poppler : {NoPopplerEnv}, pdfium : pdfiumEnvs, text : {NoTextEnv}]

\* the chain giving up after the Primary Renderer
pdf_image_chain_no_fallback(fsv, src, dst, target, env) ==
    LET a == convert_pdf_with_poppler(fsv, src, dst, target, env.poppler)
    IN IF a.exc # NoExc THEN a
       ELSE IF a.ret THEN Ret(a.fs, a.log, NoExc, None)
       ELSE Ret(a.fs, a.log, RuntimeError(NoBackendMessage, <<>>), None)

\* the chain reporting only the backend it tried last
pdf_image_chain_names_last(fsv, src, dst, target, env) ==
    LET a == convert_pdf_with_poppler(fsv, src, dst, target, env.poppler)
    IN IF a.exc # NoExc THEN a
       ELSE IF a.ret THEN Ret(a.fs, a.log, NoExc, None)
       ELSE LET b == convert_pdf_with_pdfium(a.fs, src, dst, target, env.pdfium)
            IN IF b.ret
               THEN Ret(b.fs, a.log \o b.log, NoExc, None)
               ELSE Ret(b.fs, a.log \o b.log, RuntimeError(WebpMessage, <<>>), None)

\* the chain with its two backends in the other order
pdf_image_chain_pdfium_first(fsv, src, dst, target, env) ==
    LET b == convert_pdf_with_pdfium(fsv, src, dst, target, env.pdfium)
    IN IF b.ret THEN Ret(b.fs, b.log, NoExc, None)
       ELSE LET a == convert_pdf_with_poppler(b.fs, src, dst, target, env.poppler)
            IN IF a.exc # NoExc THEN Ret(a.fs, b.log \o a.log, a.exc, None)
               ELSE IF a.ret THEN Ret(a.fs, b.log \o a.log, NoExc, None)
               ELSE Ret(a.fs, b.log \o a.log, RuntimeError(NoBackendMessage, <<>>), None)

\* the chain invoking the Primary Renderer a second time after it failed
pdf_image_chain_retry(fsv, src, dst, target, env) ==
    LET a == convert_pdf_with_poppler(fsv, src, dst, target, env.poppler)
    IN IF a.exc # NoExc THEN a
       ELSE IF a.ret THEN Ret(a.fs, a.log, NoExc, None)
       ELSE LET a2 == convert_pdf_with_poppler(a.fs, src, dst, target, env.poppler)
                b == convert_pdf_with_pdfium(a2.fs, src, dst, target, env.pdfium)
            IN IF b.ret
               THEN Ret(b.fs, a.log \o a2.log \o b.log, NoExc, None)
               ELSE Ret(b.fs, a.log \o a2.log \o b.log, RuntimeError(NoBackendMessage, <<>>), None)

\* lines 309-316: the chain for png and jpg
pdf_image_chain(fsv, src, dst, target, env) ==
    LET a == convert_pdf_with_poppler(fsv, src, dst, target, env.poppler)
    IN IF a.exc # NoExc THEN a
       ELSE IF a.ret THEN Ret(a.fs, a.log, NoExc, None)
       ELSE LET b == convert_pdf_with_pdfium(a.fs, src, dst, target, env.pdfium)
            IN IF b.ret
               THEN Ret(b.fs, a.log \o b.log, NoExc, None)
               ELSE Ret(b.fs, a.log \o b.log, RuntimeError(NoBackendMessage, <<>>), None)

\* lines 317-320: webp has one backend
pdf_webp(fsv, src, dst, target, env) ==
    LET b == convert_pdf_with_pdfium(fsv, src, dst, target, env.pdfium)
    IN IF b.ret
       THEN Ret(b.fs, b.log, NoExc, None)
       ELSE Ret(b.fs, b.log, RuntimeError(WebpMessage, <<>>), None)

\* convert_pdf sending webp through the chain of png and jpg
convert_pdf_webp_chain(fsv, src, dst, target, env) ==
    CASE target \in {png, jpg, webp} -> pdf_image_chain(fsv, src, dst, target, env)
      [] target = txt -> pdf_to_text(fsv, src, dst, env.text)
      [] OTHER -> Ret(fsv, <<>>, RuntimeError(<<"Unsupported", "PDF", "target:">>, target), None)

convert_pdf(fsv, src, dst, target, env) ==
    CASE target \in {png, jpg} -> pdf_image_chain(fsv, src, dst, target, env)
      [] target = webp -> pdf_webp(fsv, src, dst, target, env)
      [] target = txt -> pdf_to_text(fsv, src, dst, env.text)
      [] OTHER -> Ret(fsv, <<>>, RuntimeError(<<"Unsupported", "PDF", "target:">>, target), None)


\* ------------------------------------------------------------- the inputs
\* uuid4 identifiers: the runs are those of one uploaded asset and of the
\* convert requests that name it
FileIds == {<<"1">>}

\* file names a client sends: one per category, and one with no extension
Filenames ==
    { <<"r", ".">> \o pdf, <<"n", ".">> \o docx, <<"s", ".">> \o mp3,
      <<"t", ".">> \o csv, <<"i", ".">> \o png, <<"d">> }

\* what a client uploads: a file name and the mime type lines 163-172 end
\* with for it
Uploads ==
    { [filename |-> f, mime |-> NoMime] : f \in Filenames }
    \cup { [filename |-> <<"d">>, mime |-> Mime("text", "csv")] }

\* target_format strings a client sends
Targets ==
    { jpg, <<"J","P","E","G">>, <<".">> \o png, webp, txt, pdf, bmp, xls, csv, mp3 }

\* ------------------------------------------------------------ the handlers
\* the UploadResponse of upload_file
UploadResponse(file_id, filename, category, mime, suggestions) ==
    [file_id |-> file_id, filename |-> filename, category |-> category,
     mime_type |-> mime, suggestions |-> suggestions]

NoUpload == UploadResponse(<<>>, <<>>, None, NoMime, <<>>)

\* [s for s in suggestions if normalize_ext(s) != input_ext]
RECURSIVE remove_input_ext(_, _)
remove_input_ext(suggestions, input_ext) ==
    IF suggestions = <<>> THEN <<>>
    ELSE (IF normalize_ext(Head(suggestions)) # input_ext THEN <<Head(suggestions)>> ELSE <<>>)
         \o remove_input_ext(Tail(suggestions), input_ext)

\* suggestions_for comparing the catalog entries as written, not normalized
suggestions_for_literal(filename, mime) ==
    LET input_ext == normalize_ext(LStripDots(Suffix(filename)))
        keep(entry) == entry # input_ext
    IN SelectSeq(FORMAT_MAP(detect_category(filename, mime)), keep)

\* lines 174-179
suggestions_for(filename, mime) ==
    remove_input_ext(FORMAT_MAP(detect_category(filename, mime)),
                     normalize_ext(LStripDots(Suffix(filename))))

\* the locals of convert_file with the destination named after the file alone
Job_unprefixed(file_id, filename, target_format) ==
    LET target_raw == LStripDots(Lower(target_format))
        output_filename == Stem(filename) \o <<".">> \o target_raw
    IN [file_id |-> file_id, filename |-> filename, target_format |-> target_format,
        input_path |-> Path(UPLOAD_DIR, file_id \o Suffix(filename)),
        category |-> detect_category(filename, NoMime),
        target_raw |-> target_raw,
        target |-> normalize_ext(target_raw),
        output_filename |-> output_filename,
        output_path |-> Path(OUTPUT_DIR, output_filename)]

\* the locals of convert_file with the alias table left out of the target
Job_unaliased(file_id, filename, target_format) ==
    LET target_raw == LStripDots(Lower(target_format))
        output_filename == Stem(filename) \o <<".">> \o target_raw
    IN [file_id |-> file_id, filename |-> filename, target_format |-> target_format,
        input_path |-> Path(UPLOAD_DIR, file_id \o Suffix(filename)),
        category |-> detect_category(filename, NoMime),
        target_raw |-> target_raw,
        target |-> target_raw,
        output_filename |-> output_filename,
        output_path |-> Path(OUTPUT_DIR, file_id \o <<"_">> \o output_filename)]

\* the locals of convert_file, lines 193-204
Job(file_id, filename, target_format) ==
    LET target_raw == LStripDots(Lower(target_format))
        output_filename == Stem(filename) \o <<".">> \o target_raw
    IN [file_id |-> file_id, filename |-> filename, target_format |-> target_format,
        input_path |-> Path(UPLOAD_DIR, file_id \o Suffix(filename)),
        category |-> detect_category(filename, NoMime),
        target_raw |-> target_raw,
        target |-> normalize_ext(target_raw),
        output_filename |-> output_filename,
        output_path |-> Path(OUTPUT_DIR, file_id \o <<"_">> \o output_filename)]

NoJob ==
    [file_id |-> <<>>, filename |-> <<>>, target_format |-> <<>>, input_path |-> NoPath,
     category |-> None, target_raw |-> <<>>, target |-> <<>>, output_filename |-> <<>>,
     output_path |-> NoPath]

\* allowed_targets looking the target up in every row of the catalog
allowed_targets_any(category) ==
    UNION { {normalize_ext(FORMAT_MAP(c)[i]) : i \in DOMAIN FORMAT_MAP(c)} : c \in Categories }

\* line 206
allowed_targets(category) ==
    {normalize_ext(FORMAT_MAP(category)[i]) : i \in DOMAIN FORMAT_MAP(category)}

\* line 207
target_allowed(category, target) == target \in allowed_targets(category)

\* an HTTP response: the status, the detail as words, the extension and the
\* category formatted into it, and for a FileResponse the path it serves
Response(status, msg, ext, category, path) ==
    [status |-> status, msg |-> msg, ext |-> ext, category |-> category, path |-> path]

NoResponse == Response(0, <<>>, <<>>, None, NoPath)

UploadNotFound == Response(404, <<"Upload", "not", "found">>, <<>>, None, NoPath)

\* f"Target .{target_raw} is not supported for {category}"
UnsupportedTarget(target_raw, category) ==
    Response(400, <<"Target", ".{target_raw}", "is", "not", "supported", "for", "{category}">>,
             target_raw, category, NoPath)

\* f"Conversion failed: {str(e)}"
ConversionFailed(exc) ==
    Response(500, <<"Conversion", "failed:">> \o exc.msg, exc.arg, None, NoPath)

NoOutputProduced ==
    Response(500, <<"Conversion", "produced", "no", "output", "file">>, <<>>, None, NoPath)

FileResponse(path) == Response(200, <<>>, <<>>, None, path)

EmptyFs == [p \in {} |-> File("nobody", FALSE)]

Init ==
    /\ caps \in [pillow : BOOLEAN, pandas : BOOLEAN, pdfium : BOOLEAN]
    /\ fs = EmptyFs
    /\ pc = "idle"
    /\ req = NoJob
    /\ world = None
    /\ log = <<>>
    /\ result = NoResponse
    /\ upl = NoUpload
    /\ nreq = 0
    /\ given = None
    /\ got = <<>>
    /\ jobs = <<>>

\* POST /upload: the file is stored under a fresh identifier, classified, and
\* the targets of its category other than its own format are suggested
Upload(file_id, filename, mime) ==
    /\ \A p \in DOMAIN fs : p.dir = UPLOAD_DIR => Stem(p.name) # file_id
    /\ LET save_path == Path(UPLOAD_DIR, file_id \o Suffix(filename))
       IN /\ fs' = write(fs, save_path, [by |-> "upload", req |-> 0, partial |-> FALSE])
          /\ upl' = UploadResponse(file_id, filename, detect_category(filename, mime),
                                   mime, suggestions_for(filename, mime))
    /\ UNCHANGED <<caps, pc, req, world, log, result, nreq>>
    /\ UNCHANGED calls

\* POST /convert up to the dispatch: the upload is looked up and the target
\* validated against the catalog row of the file's category
ConvertStart(file_id, filename, target_format) ==
    /\ pc \in {"idle", "done"}
    /\ nreq < MaxRequests
    /\ nreq' = nreq + 1
    /\ log' = <<>>
    /\ world' = None
    /\ LET job == Job(file_id, filename, target_format)
       IN IF ~exists(fs, job.input_path)
          THEN \* raised at line 197, before any other local is computed
               pc' = "done" /\ req' = NoJob /\ result' = UploadNotFound
          ELSE IF ~target_allowed(job.category, job.target)
          THEN /\ pc' = "done" /\ req' = job
               /\ result' = UnsupportedTarget(job.target_raw, job.category)
          ELSE pc' = "dispatch" /\ req' = job /\ result' = NoResponse
    /\ UNCHANGED <<caps, fs, upl>>
    /\ UNCHANGED calls

\* lines 213-229 around one adapter call, r being what the call handed back
\* when the backends behaved as e: its effects are kept, and what it raised
\* (no adapter raises an HTTPException) is wrapped into a 500
Adapter(r, e) ==
    /\ world' = e
    /\ fs' = r.fs
    /\ log' = log \o r.log
    /\ IF r.exc = NoExc
       THEN pc' = "post" /\ result' = result
       ELSE pc' = "done" /\ result' = ConversionFailed(r.exc)
    /\ UNCHANGED <<caps, req, upl, nreq>>
    /\ UNCHANGED calls

RunImage ==
    /\ pc = "dispatch" /\ req.category = "image"
    /\ \E env \in ImageEnvs :
          Adapter(convert_image(fs, req.input_path, req.output_path, req.target, env), env)

RunMedia ==
    /\ pc = "dispatch" /\ req.category \in {"audio", "video"}
    /\ \E env \in MediaEnvs :
          Adapter(convert_media(fs, req.input_path, req.output_path, req.target, env), env)

RunSpreadsheet ==
    /\ pc = "dispatch" /\ req.category = "spreadsheet"
    /\ \E env \in SpreadsheetEnvs(req.target) :
          Adapter(convert_spreadsheet(fs, req.input_path, req.output_path, req.target, env), env)

RunOffice ==
    /\ pc = "dispatch" /\ req.category \in {"document", "presentation"}
    /\ \E env \in OfficeEnvs :
          Adapter(convert_office(fs, req.input_path, req.output_path, req.target, env), env)

RunPdf ==
    /\ pc = "dispatch" /\ req.category = "pdf"
    /\ \E env \in PdfEnvs(req.target) :
          Adapter(convert_pdf(fs, req.input_path, req.output_path, req.target, env), env)

\* PostCheck without the existence check
PostCheck_unchecked ==
    /\ pc = "post"
    /\ pc' = "done"
    /\ result' = FileResponse(req.output_path)
    /\ UNCHANGED <<caps, fs, req, world, log, upl, nreq>>
    /\ UNCHANGED calls

\* lines 231-238: the router's postcondition and the response
PostCheck ==
    /\ pc = "post"
    /\ pc' = "done"
    /\ result' = IF exists(fs, req.output_path)
                 THEN FileResponse(req.output_path)
                 ELSE NoOutputProduced
    /\ UNCHANGED <<caps, fs, req, world, log, upl, nreq>>
    /\ UNCHANGED calls

Next ==
    \/ \E file_id \in FileIds, u \in Uploads : Upload(file_id, u.filename, u.mime)
    \/ \E file_id \in FileIds, filename \in Filenames, target_format \in Targets :
          ConvertStart(file_id, filename, target_format)
    \/ RunImage
    \/ RunMedia
    \/ RunSpreadsheet
    \/ RunOffice
    \/ RunPdf
    \/ PostCheck

Spec == Init /\ [][Next]_vars


\* ------------------------------------------- two requests side by side
\* str(uuid.uuid4()): a string of fixed length made of hexadecimal digits
\* and "-"
IdChars == {"1", "a"}
IdLen == 2
AssetIds == [1..IdLen -> IdChars]

\* what two clients ask for at the same time: files of the same stem, so
\* that only the identifier can tell their paths apart
ConcurrentRequests ==
    { [filename |-> <<"r", ".">> \o pdf, target_format |-> jpg],
      [filename |-> <<"r", ".">> \o pdf, target_format |-> <<"J","P","E","G">>],
      [filename |-> <<"r", ".">> \o docx, target_format |-> pdf],
      [filename |-> <<"r", ".">> \o csv, target_format |-> pdf],
      [filename |-> <<"r", ".">> \o png, target_format |-> pdf] }

\* one access of the filesystem: the operation and the path
Access(op, path) == [op |-> op, path |-> path]

\* convert_office: the converter reads src and writes its output into
\* dst.parent under the source's stem; lines 303-305 probe that path and
\* rename it to dst
office_accesses(src, dst, target) ==
    LET expected == Path(dst.dir, Stem(src.name) \o <<".">> \o lo_format_of(target))
    IN <<Access("read", src), Access("write", expected), Access("probe", expected),
         Access("rename", expected), Access("write", dst)>>

\* convert_pdf_with_poppler: pdftoppm reads src and writes prefix + its own
\* extension; lines 347-350 probe each candidate and replace dst by it
poppler_accesses(src, dst, target) ==
    LET usual == IF target = jpg THEN jpg ELSE target
        cands == poppler_candidates(dst, target)
    IN <<Access("read", src),
         Access("write", Path(dst.dir, Stem(dst.name) \o <<".">> \o usual))>>
       \o [i \in 1..(2 * Len(cands)) |->
              IF i % 2 = 1 THEN Access("probe", cands[(i + 1) \div 2])
                           ELSE Access("rename", cands[i \div 2])]
       \o <<Access("write", dst)>>

\* every other backend reads src and writes dst
direct_accesses(src, dst) == <<Access("read", src), Access("write", dst)>>

\* the accesses convert_file and the adapter it selects can make for a
\* request, in program order: the lookup of line 196, the adapter's, the
\* probe of line 231 and the FileResponse
accesses(job) ==
    LET src == job.input_path
        dst == job.output_path
        adapter ==
            CASE job.category \in {"document", "presentation"} ->
                    office_accesses(src, dst, job.target)
              [] job.category = "spreadsheet" /\ job.target = pdf ->
                    <<Access("read", src)>> \o office_accesses(src, dst, pdf)
              [] job.category = "pdf" /\ job.target \in {png, jpg} ->
                    poppler_accesses(src, dst, job.target) \o direct_accesses(src, dst)
              [] OTHER -> direct_accesses(src, dst)
    IN <<Access("probe", src)>>
       \o (IF target_allowed(job.category, job.target)
           THEN adapter \o <<Access("probe", dst), Access("read", dst)>>
           ELSE <<>>)

\* a request in flight: its locals, the accesses its code path makes and
\* the number of them it has made
Running(file_id, r) ==
    LET job == Job(file_id, r.filename, r.target_format)
    IN [job |-> job, todo |-> accesses(job), pos |-> 0]

\* the server at rest, every optional library installed
ServerAtRest ==
    /\ caps = [pillow |-> TRUE, pandas |-> TRUE, pdfium |-> TRUE]
    /\ fs = EmptyFs
    /\ pc = "idle"
    /\ req = NoJob
    /\ world = None
    /\ log = <<>>
    /\ result = NoResponse
    /\ upl = NoUpload
    /\ nreq = 0

\* two requests for two uploaded assets have arrived
InitPair ==
    /\ ServerAtRest
    /\ given = None
    /\ got = <<>>
    /\ jobs \in { <<Running(ids[1], r1), Running(ids[2], r2)>> :
                     ids \in {p \in AssetIds \X AssetIds : p[1] # p[2]},
                     r1 \in ConcurrentRequests, r2 \in ConcurrentRequests }

\* request j makes its next access; a request that fails on the way makes
\* no further one
Touch(j) ==
    /\ jobs[j].pos < Len(jobs[j].todo)
    /\ jobs' = [jobs EXCEPT ![j].pos = @ + 1]
    /\ UNCHANGED <<server, given, got>>

NextPair == \E j \in DOMAIN jobs : Touch(j)

SpecPair == InitPair /\ [][NextPair]_vars

\* ------------------------------------------- calls studied on their own
\* the strings a client can send as an extension or a target: every
\* extension the tables know and some they do not, in lower case, in upper
\* case and capitalised, behind up to MaxDots dots
MaxDots == 2

UpperChar(c) ==
    IF \E i \in DOMAIN LowerCase : LowerCase[i] = c
    THEN UpperCase[CHOOSE i \in DOMAIN LowerCase : LowerCase[i] = c]
    ELSE c

Upper(s) == [i \in DOMAIN s |-> UpperChar(s[i])]

Capitalised(s) == [i \in DOMAIN s |-> IF i = 1 THEN UpperChar(s[i]) ELSE s[i]]

Dots(n) == [i \in 1..n |-> "."]

KnownExts ==
    UNION {Range(FORMAT_MAP(c)) : c \in Categories} \cup {wma, wmv, flv, doc, ppt}

ExtStrings ==
    LET plain == KnownExts \cup {<<>>, <<"z","i","p">>, <<"j",".","p","g">>, <<"j","p","g",".">>}
    IN {Dots(n) \o v : n \in 0..MaxDots,
                       v \in UNION {{e, Upper(e), Capitalised(e)} : e \in plain}}

\* file names of every category, some categories under several extensions
\* and letter cases, and names the extension table does not know
ClassFilenames ==
    { <<"i", ".">> \o png, <<"i", ".">> \o Upper(jpeg), <<"i", ".">> \o tif,
      <<"s", ".">> \o mp3, <<"v", ".">> \o mkv, <<"t", ".">> \o csv, <<"t", ".">> \o xls,
      <<"n", ".">> \o docx, <<"p", ".">> \o Capitalised(ppt),
      <<"r", ".">> \o pdf, <<"r", ".">> \o Upper(pdf),
      <<"d">>, <<"d", ".">> \o <<"z","i","p">>, <<".">> \o pdf }

\* lines 199-211 for an upload that exists: whether the request passes the
\* target validation
passes_validation(filename, target_format) ==
    LET job == Job(<<"1">>, filename, target_format)
    IN target_allowed(job.category, job.target)

InitValidate ==
    /\ ServerAtRest
    /\ given \in [filename : ClassFilenames, target_format : ExtStrings]
    /\ got = <<>>
    /\ jobs = <<>>

Validate ==
    /\ got = <<>>
    /\ got' = <<passes_validation(given.filename, given.target_format)>>
    /\ UNCHANGED <<server, given, jobs>>

SpecValidate == InitValidate /\ [][Validate]_vars

\* mime types upload_file ends lines 163-172 with: none, types of the mime
\* table, types with a media prefix, a bare prefix and an unknown type
MimeHints ==
    { NoMime, Mime("image", "png"), Mime("audio", "x-unknown"), Mime("video", "mp4"),
      Mime("text", "csv"), Mime("text", "plain"), Mime("application", "pdf"),
      Mime("image", NoSlash), Mime("application", "zip") }

InitSuggest ==
    /\ ServerAtRest
    /\ given \in [filename : ClassFilenames, mime : MimeHints]
    /\ got = <<>>
    /\ jobs = <<>>

\* lines 174-179 of upload_file
Suggest ==
    /\ got = <<>>
    /\ got' = <<suggestions_for(given.filename, given.mime)>>
    /\ UNCHANGED <<server, given, jobs>>

SpecSuggest == InitSuggest /\ [][Suggest]_vars

InitClassify ==
    /\ ServerAtRest
    /\ given \in [filename : ClassFilenames, mime : MimeHints]
    /\ got = <<>>
    /\ jobs = <<>>

\* line 174 of upload_file
Classify ==
    /\ got = <<>>
    /\ got' = <<detect_category(given.filename, given.mime)>>
    /\ UNCHANGED <<server, given, jobs>>

SpecClassify == InitClassify /\ [][Classify]_vars

InitNormalize ==
    /\ ServerAtRest
    /\ given \in ExtStrings
    /\ got = <<>>
    /\ jobs = <<>>

\* normalize_ext called on the argument
Normalize ==
    /\ got = <<>>
    /\ got' = <<normalize_ext(given)>>
    /\ UNCHANGED <<server, given, jobs>>

\* normalize_ext called on what the first call returned
NormalizeAgain ==
    /\ Len(got) = 1
    /\ got' = got \o <<normalize_ext(got[1])>>
    /\ UNCHANGED <<server, given, jobs>>

NextNormalize == Normalize \/ NormalizeAgain

SpecNormalize == InitNormalize /\ [][NextNormalize]_vars

\* targets convert_pdf_with_pdfium can be called with: those it saves and
\* some it has no branch for
PdfiumTargets == {jpg, png, webp, txt, bmp, gif}

InitPdfium ==
    /\ caps \in [pillow : {TRUE}, pandas : {TRUE}, pdfium : BOOLEAN]
    /\ fs = EmptyFs /\ pc = "idle" /\ req = NoJob /\ world = None /\ log = <<>>
    /\ result = NoResponse /\ upl = NoUpload /\ nreq = 0
    /\ given \in [target : PdfiumTargets, env : PdfiumEnvs]
    /\ got = <<>>
    /\ jobs = <<>>

\* one call of convert_pdf_with_pdfium on an uploaded PDF
CallPdfium ==
    /\ got = <<>>
    /\ LET src == Path(UPLOAD_DIR, <<"1", ".">> \o pdf)
           dst == Path(OUTPUT_DIR, <<"1", "_", "r", ".">> \o given.target)
       IN got' = <<convert_pdf_with_pdfium(fs, src, dst, given.target, given.env)>>
    /\ UNCHANGED <<server, given, jobs>>

SpecPdfium == InitPdfium /\ [][CallPdfium]_vars

\* ----------------------------------------------------------------- claims
\* the request in flight got past the upload lookup and the target
\* validation, and its adapter has been called
Dispatched == pc = "post" \/ (pc = "done" /\ result.status \in {200, 500})

\* the request in flight is a PDF job for the fallback chain
PdfImage == req.category = "pdf" /\ req.target \in {png, jpg}

Invoked(tool) == \E i \in DOMAIN log : log[i].tool = tool

\* an attempt of the Secondary Renderer: the call of convert_pdf_with_pdfium
PdfiumEvents == {i \in DOMAIN log : log[i].tool \in {"pdfium", "pdfium.open"}}

\* the aggregate failure of the exhausted chain, as the router reports it
ChainExhausted == ConversionFailed(RuntimeError(NoBackendMessage, <<>>))

\* C1: PDF to png or jpg, pdftoppm not installed, pypdfium2 available and
\* rendering and saving without error: convert_pdf returns normally, the
\* destination path holds the file the Secondary Renderer wrote during this
\* request, and the request ends as a FileResponse for the destination.
C1_SecondaryOutputUsed ==
    (Dispatched /\ PdfImage /\ world.poppler.out = "absent"
        /\ caps.pdfium /\ world.pdfium = "ok")
    => /\ exists(fs, req.output_path)
       /\ fs[req.output_path] = File("pdfium", FALSE)
       /\ result = IF pc = "post" THEN NoResponse ELSE FileResponse(req.output_path)

C1_Witness ==
    /\ pc = "done" /\ PdfImage /\ result.status = 200
    /\ world.poppler.out = "absent" /\ caps.pdfium /\ world.pdfium = "ok"
    /\ fs[req.output_path].by = "pdfium"

\* how the Primary Renderer's call ended, for a request of the chain
PrimaryOutcome == log[1].out

SecondaryFails == ~caps.pdfium \/ world.pdfium # "ok"

NamesBoth(msg) == {"poppler", "(pdftoppm)", "pypdfium2."} \subseteq Range(msg)

\* C2 as claimed: PDF to png or jpg, the Primary Renderer did not succeed in
\* any way (absent, non-zero exit, no candidate, timeout, error while moving)
\* and the Secondary Renderer is unavailable or fails: the request ends in
\* one failure whose message names poppler/pdftoppm and pypdfium2.
C2_AsClaimed ==
    (pc = "done" /\ Dispatched /\ PdfImage /\ PrimaryOutcome # "ok" /\ SecondaryFails)
    => result.status = 500 /\ NamesBoth(result.msg)

\* C2 amended: when the Primary Renderer is absent, exits non-zero or leaves
\* no candidate output file, and the Secondary Renderer is unavailable or
\* fails, the request ends in the one aggregate failure, whose message names
\* both dependencies; whenever neither backend succeeds (a timeout or a move
\* error of the Primary Renderer included) the request ends in a failure and
\* never reports success.
C2_AggregateFailure ==
    (pc = "done" /\ Dispatched /\ PdfImage /\ PrimaryOutcome # "ok" /\ SecondaryFails)
    => /\ result.status = 500
       /\ PrimaryOutcome \in {"absent", "nonzero", "no_candidate"}
            => result = ChainExhausted /\ NamesBoth(result.msg)

C2_Witness ==
    /\ pc = "done" /\ PdfImage /\ PrimaryOutcome = "nonzero"
    /\ caps.pdfium /\ world.pdfium = "render_error"
    /\ result = ChainExhausted

\* C3: in a request of the chain the Primary Renderer is the first backend
\* invoked; the Secondary Renderer is attempted only after the Primary
\* Renderer was absent, exited non-zero or left no candidate file; and when
\* the Primary Renderer succeeded the Secondary Renderer is not attempted.
C3_StrictPriorityOrder ==
    (Dispatched /\ PdfImage)
    => /\ log # <<>> /\ log[1].tool = "pdftoppm"
       /\ \A i \in DOMAIN log : log[i].tool = "pdftoppm" => i = 1
       /\ PdfiumEvents # {} => PrimaryOutcome \in {"absent", "nonzero", "no_candidate"}
       /\ PrimaryOutcome = "ok" => PdfiumEvents = {} /\ Len(log) = 1

C3_Witness ==
    /\ Dispatched /\ PdfImage /\ PrimaryOutcome = "no_candidate"
    /\ PdfiumEvents # {} /\ Invoked("pdfium.save")

\* C4: PDF to webp without pypdfium2: the request fails with the failure
\* that names pypdfium2, and neither pdftoppm nor any other backend was
\* invoked on the way.
C4_WebpFailsWithoutPrimary ==
    (Dispatched /\ req.category = "pdf" /\ req.target = webp /\ ~caps.pdfium)
    => /\ pc = "done"
       /\ result = ConversionFailed(RuntimeError(WebpMessage, <<>>))
       /\ "pypdfium2." \in Range(result.msg)
       /\ ~Invoked("pdftoppm")
       /\ log = <<Event("pdfium", "unavailable", NoPath)>>

C4_Witness ==
    /\ pc = "done" /\ req.category = "pdf" /\ req.target = webp /\ ~caps.pdfium
    /\ result.status = 500

EmptyDocument == ConversionFailed(RuntimeError(<<"PDF", "has", "no", "pages">>, <<>>))

\* C5 as claimed: when the Secondary Renderer is given a PDF with zero
\* pages, no page is rendered and the request ends with the failure
\* "PDF has no pages".
C5_AsClaimed ==
    (pc = "done" /\ Dispatched /\ req.category = "pdf"
        /\ \E i \in DOMAIN log : log[i].tool = "pdfium.len" /\ log[i].out = "0")
    => ~Invoked("pdfium.render") /\ result = EmptyDocument


\* C6 as claimed: in a request of the chain every failure of the Primary
\* Renderer, a timeout or an error while moving its output included, is
\* followed by an attempt of the Secondary Renderer, and the only failure
\* the caller can see is the aggregate one.
C6_AsClaimed ==
    (Dispatched /\ PdfImage /\ PrimaryOutcome # "ok")
    => /\ PdfiumEvents # {}
       /\ result.status = 500 => result = ChainExhausted

\* C6 amended: a Primary Renderer that is absent, exits non-zero or leaves no
\* candidate output file is swallowed and followed by an attempt of the
\* Secondary Renderer, and the caller then sees no failure but the aggregate
\* one; a timeout of the Primary Renderer, or an error raised while its
\* output is moved, reaches the caller at once, the Secondary Renderer
\* unattempted.
C6_SwallowedFailures ==
    (Dispatched /\ PdfImage)
    => /\ PrimaryOutcome \in {"absent", "nonzero", "no_candidate"}
            => /\ PdfiumEvents # {}
               /\ result.status = 500 => result = ChainExhausted
       /\ PrimaryOutcome \in {"timeout", "move_error"}
            => /\ PdfiumEvents = {}
               /\ pc = "done"
               /\ result \in {ConversionFailed(TimeoutExpired("pdftoppm", "60")),
                              ConversionFailed(Exc("PermissionError",
                                  <<"[Errno", "13]", "Permission", "denied">>, <<>>))}

C6_Witness ==
    /\ pc = "done" /\ PdfImage /\ PrimaryOutcome = "nonzero"
    /\ Invoked("pdfium.render") /\ result = ChainExhausted

\* C7: a convert request for an uploaded file whose normalized target is no
\* entry of the catalog row of the file's category ends at once with the 400
\* response that carries the rejected extension and the category; the step
\* invokes no backend and leaves every file as it was.
C7_UnsupportedTargetRejected ==
    [][ ( /\ nreq' = nreq + 1
          /\ req' # NoJob
          /\ normalize_ext(req'.target_format) \notin Range(FORMAT_MAP(req'.category)) )
        => /\ pc' = "done"
           /\ result' = UnsupportedTarget(LStripDots(Lower(req'.target_format)),
                                          detect_category(req'.filename, NoMime))
           /\ result'.status = 400
           /\ log' = <<>>
           /\ fs' = fs ]_vars

C7_Witness ==
    /\ pc = "done" /\ result.status = 400 /\ log = <<>>
    /\ req.category = "audio" /\ req.target = bmp /\ result.ext = bmp

\* C8: when the adapter has returned and the destination path does not
\* exist, the request ends with "Conversion produced no output file"; and a
\* request that ends as a FileResponse serves the destination path, which
\* exists.
C8_OutputPostcondition ==
    [][ /\ (pc = "post" /\ pc' = "done" /\ ~exists(fs, req.output_path))
            => result' = NoOutputProduced
        /\ (pc' = "done" /\ result'.status = 200)
            => result'.path = req'.output_path /\ exists(fs', req'.output_path) ]_vars

C8_Witness == pc = "done" /\ result = NoOutputProduced /\ ~exists(fs, req.output_path)

\* the office converter's call in the request in flight, when there was one
OfficeCalled ==
    /\ Dispatched
    /\ \/ req.category \in {"document", "presentation"}
       \/ req.category = "spreadsheet" /\ req.target = pdf /\ caps.pandas /\ world.read

OfficeWorld == IF req.category = "spreadsheet" THEN world.office ELSE world

\* parentDir / (sourceStem + "." + targetFormat)
ToolChosenPath == Path(req.output_path.dir, Stem(req.input_path.name) \o <<".">> \o req.target)

\* C9: when the office converter exited with status 0 having written
\* parentDir/(sourceStem.targetFormat) and convert_office returned, the file
\* it wrote is at the destination path, renamed there once, no file is left
\* under the tool-chosen name, and the request ends as a FileResponse for the
\* destination; and the reconciliation of a path with itself renames nothing.
C9_OfficeOutputReconciled ==
    /\ (OfficeCalled /\ OfficeWorld.out = "exit0" /\ OfficeWorld.wrote /\ OfficeWorld.renameOk)
       => /\ ToolChosenPath # req.output_path
          /\ exists(fs, req.output_path)
          /\ fs[req.output_path] = File("libreoffice", FALSE)
          /\ ~exists(fs, ToolChosenPath)
          /\ Cardinality({i \in DOMAIN log : log[i].tool = "rename"}) = 1
          /\ result = IF pc = "post" THEN NoResponse ELSE FileResponse(req.output_path)
    /\ \A p \in DOMAIN fs, ok \in BOOLEAN :
          reconcile_office(fs, p, p, ok) = Ret(fs, <<>>, NoExc, None)

C9_Witness ==
    /\ pc = "done" /\ req.category = "document" /\ req.target = pdf
    /\ world.out = "exit0" /\ world.wrote /\ world.renameOk
    /\ result = FileResponse(req.output_path)
    /\ fs[req.output_path].by = "libreoffice"
    /\ Invoked("rename")

Timeouts == {i \in DOMAIN log : log[i].out = "timeout"}

\* C10: when an external tool hit its timeout, the request ends in a failure
\* (the wrapped TimeoutExpired), also when a file exists at the destination
\* path; the timed-out invocation is the last one of the request; and what
\* the tool had written by then is still where it wrote it.
C10_TimeoutFailsJob ==
    \A i \in Timeouts :
        /\ log[i].tool \in {"ffmpeg", "libreoffice", "pdftoppm", "pdftotext"}
        /\ pc = "done"
        /\ result.status = 500
        /\ result.msg = <<"Conversion", "failed:", "Command", log[i].tool, "timed", "out", "after",
                          CASE log[i].tool = "ffmpeg" -> "300"
                            [] log[i].tool = "libreoffice" -> "120"
                            [] OTHER -> "60",
                          "seconds">>
        /\ i = Len(log)
        /\ log[i].wrote # NoPath
            => exists(fs, log[i].wrote) /\ fs[log[i].wrote] = File(log[i].tool, TRUE)

C10_Witness ==
    /\ pc = "done" /\ Timeouts # {} /\ result.status = 500
    /\ log[Len(log)].tool = "pdftoppm"
    /\ exists(fs, req.output_path) /\ fs[req.output_path].req < nreq

\* the backends a convert request can invoke, by the name their invocation
\* is logged under (pdfium.open: the first thing an attempt of the in-process
\* renderer does)
Backends == {"ffmpeg", "libreoffice", "pdftoppm", "pdftotext", "pdfium.open", "pillow"}

Invocations(tool) == {i \in DOMAIN log : log[i].tool = tool}

\* how an invocation ends when the backend did what it was asked to
Succeeded(ev) == ev.out \in {"ok", "exit0"}

\* C11: during one convert request every backend (ffmpeg, libreoffice,
\* pdftoppm, pdftotext, the in-process PDF renderer, the image library) is
\* invoked at most once, and no invocation of a backend follows a failed
\* invocation of the same backend.
C11_NoRetries ==
    \A b \in Backends :
        /\ Cardinality(Invocations(b)) <= 1
        /\ \A i, j \in Invocations(b) : (i < j) => Succeeded(log[i])

C11_Witness ==
    /\ pc = "done" /\ PdfImage /\ result = ChainExhausted
    /\ PrimaryOutcome = "nonzero"
    /\ Cardinality(Invocations("pdftoppm")) = 1
    /\ Cardinality(Invocations("pdfium.open")) = 1
    /\ log[2] = Event("pdfium.open", "error", NoPath)

\* the paths request j has read, written, renamed or probed so far
Touched(j) == {jobs[j].todo[k].path : k \in 1..jobs[j].pos}

\* the paths the claim lists for a request: input, destination, the office
\* converter's tool-chosen path and the renderer's candidates
ListedPaths(job) ==
    {job.input_path, job.output_path,
     Path(job.output_path.dir, Stem(job.input_path.name) \o <<".">> \o lo_format_of(job.target))}
    \cup Range(poppler_candidates(job.output_path, job.target))

\* C12: two convert requests that run side by side for distinct asset
\* identifiers have, at every point of every interleaving, touched no path
\* in common; and their input paths, destinations, tool-chosen office paths
\* and renderer candidate paths are pairwise different.
C12_NoSharedPath ==
    (jobs # <<>> /\ jobs[1].job.file_id # jobs[2].job.file_id)
    => /\ Touched(1) \cap Touched(2) = {}
       /\ ListedPaths(jobs[1].job) \cap ListedPaths(jobs[2].job) = {}

C12_Witness ==
    /\ jobs # <<>>
    /\ jobs[1].job.category = "document" /\ jobs[2].job.category = "pdf"
    /\ jobs[1].job.target = pdf /\ jobs[2].job.target = jpg
    /\ jobs[2].job.target_raw = jpeg
    /\ Stem(jobs[1].job.filename) = Stem(jobs[2].job.filename)
    /\ \A j \in {1, 2} : jobs[j].pos = Len(jobs[j].todo)
    /\ ListedPaths(jobs[1].job) \subseteq Touched(1)
    /\ Range(poppler_candidates(jobs[2].job.output_path, jobs[2].job.target))
          \cup {jobs[2].job.input_path, jobs[2].job.output_path} = Touched(2)

\* C13: for every category and every target string t, the request passes
\* the target validation exactly when normalize(t) is a literal entry of the
\* category's catalog row; so two files of one category under different
\* extensions get the same answer for the same target, and a file's own
\* format is accepted when the row lists it.
C13_ValidTargetIffInRow ==
    got # <<>>
    => /\ got[1] <=> normalize_ext(given.target_format)
                    \in Range(FORMAT_MAP(detect_category(given.filename, NoMime)))
       /\ \A f \in ClassFilenames :
             detect_category(f, NoMime) = detect_category(given.filename, NoMime)
             => passes_validation(f, given.target_format) = got[1]

C13_Witness ==
    /\ got = <<TRUE>>
    /\ given.filename = <<"i", ".">> \o png
    /\ given.target_format = <<".", ".">> \o Capitalised(tif)

\* the indices of a list whose entry normalizes to something else than ext
Others(row, ext) == {i \in DOMAIN row : normalize_ext(row[i]) # normalize_ext(ext)}

\* C14: the suggestions upload returns for a file hold no entry whose
\* normalized form is the normalized extension of the file, are empty when
\* the category is unknown, and are the other entries of the category's
\* catalog row, all of them, once each and in the order of the row.
C14_Suggestions ==
    got # <<>>
    => LET sug == got[1]
           category == detect_category(given.filename, given.mime)
           row == FORMAT_MAP(category)
           ext == Suffix(given.filename)
       IN /\ \A i \in DOMAIN sug : normalize_ext(sug[i]) # normalize_ext(ext)
          /\ category = "unknown" => sug = <<>>
          /\ Len(sug) = Cardinality(Others(row, ext))
          /\ \A i \in DOMAIN sug :
                \E k \in Others(row, ext) :
                    /\ sug[i] = row[k]
                    /\ Cardinality({m \in Others(row, ext) : m < k}) = i - 1

C14_Witness ==
    /\ given = [filename |-> <<"i", ".">> \o Upper(jpeg), mime |-> Mime("application", "pdf")]
    /\ got = << <<png, webp, pdf, tiff, tif, bmp, gif, ico>> >>

\* the lower-cased extension of a file name, without its dot
LowerExt(filename) == Lower(LStripDots(Suffix(filename)))

MediaPrefixes == {"image", "audio", "video"}

\* C15: a file name whose lower-cased extension is a key of the extension
\* table gets that key's category whatever the mime type is (r.pdf in any
\* letter case: pdf); any other file name gets the media prefix of a mime
\* type that starts with image/, audio/ or video/, else the category of a
\* mime type that is a key of the mime table (d with text/csv:
\* spreadsheet), else unknown.
C15_Classification ==
    got # <<>>
    => LET ext == LowerExt(given.filename)
           mime == given.mime
       IN /\ EXT_TO_CATEGORY(ext) # None => got[1] = EXT_TO_CATEGORY(ext)
          /\ ext = pdf => got[1] = "pdf"
          /\ EXT_TO_CATEGORY(ext) = None
             => /\ (mime.type \in MediaPrefixes /\ mime.subtype # NoSlash)
                     => got[1] = mime.type
                /\ ~(mime.type \in MediaPrefixes /\ mime.subtype # NoSlash)
                     => got[1] = IF mime # NoMime /\ MIME_TO_CATEGORY(mime) # None
                                 THEN MIME_TO_CATEGORY(mime)
                                 ELSE "unknown"
          /\ (given.filename = <<"d">> /\ mime = Mime("text", "csv"))
                => got[1] = "spreadsheet"

C15_Witness ==
    /\ given = [filename |-> <<"r", ".">> \o Upper(pdf), mime |-> Mime("image", "png")]
    /\ got = <<"pdf">>

\* C16: normalizing an extension string that is already the result of a
\* normalization gives it back: normalize(normalize(x)) = normalize(x).
C16_NormalizeIdempotent ==
    Len(got) = 2 => got[2] = got[1]

C16_Witness ==
    /\ given = <<".", ".">> \o Upper(jpeg)
    /\ got = <<jpg, jpg>>

\* the adapter's own unsupported-target failures, as the router reports them
UnsupportedSpreadsheetTarget(target) ==
    ConversionFailed(RuntimeError(<<"Unsupported", "spreadsheet", "target:">>, target))

UnsupportedPdfTarget(target) ==
    ConversionFailed(RuntimeError(<<"Unsupported", "PDF", "target:">>, target))

\* C17 as claimed: a request that passed the target validation never ends
\* in the adapter's unsupported-target failure, whatever the category and
\* the catalog target, spreadsheet to xls included.
C17_AsClaimed ==
    (Dispatched /\ pc = "done")
    => result \notin {UnsupportedSpreadsheetTarget(req.target), UnsupportedPdfTarget(req.target)}

\* the request in flight names the uploaded asset, the file name it was
\* uploaded under and a target the upload suggested
SuggestedRequest ==
    /\ req # NoJob
    /\ upl # NoUpload
    /\ req.file_id = upl.file_id
    /\ req.filename = upl.filename
    /\ req.target_format \in Range(upl.suggestions)

\* C18 as claimed: a convert request for an uploaded asset, under the file
\* name of the upload and for a target the upload suggested, sees the
\* category the upload saw and passes the target validation, also when the
\* upload took the category from the mime type.
C18_AsClaimed ==
    SuggestedRequest
    => /\ req.category = upl.category
       /\ result # UnsupportedTarget(req.target_raw, req.category)

\* no backend invoked by the request in flight wrote a file
BackendWroteNothing == \A i \in DOMAIN log : log[i].wrote = NoPath

\* C19 as claimed: a convert request whose backends produced no output
\* never reports success with a file that an earlier request left at the
\* destination path or at a renderer candidate path.
C19_AsClaimed ==
    (pc = "done" /\ result.status = 200 /\ BackendWroteNothing)
    => fs[result.path].req = nreq

\* the documents a call opened, and its calls of close, as places in its log
Opened(events) ==
    {i \in DOMAIN events : events[i] = Event("pdfium.open", "ok", NoPath)}

Closed(events) == {i \in DOMAIN events : events[i].tool = "pdfium.close"}

\* C20: on every way out of convert_pdf_with_pdfium (saved, target without a
\* branch, document without pages, error while rendering or saving) the
\* document that was opened is closed once, as the last thing before the
\* function returns; and when no document was opened (pypdfium2 missing,
\* error while opening) nothing is closed.
C20_ScopedRelease ==
    got # <<>>
    => LET events == got[1].log
       IN /\ got[1].exc = NoExc
          /\ Cardinality(Opened(events)) <= 1
          /\ Cardinality(Closed(events)) = Cardinality(Opened(events))
          /\ \A c \in Closed(events) :
                c = Len(events) /\ \E o \in Opened(events) : o < c
          /\ (~caps.pdfium \/ given.env = "open_error") => Closed(events) = {}
          /\ (caps.pdfium /\ given.env # "open_error") => Cardinality(Closed(events)) = 1

C20_Witness ==
    /\ got # <<>> /\ caps.pdfium
    /\ given = [target |-> txt, env |-> "ok"]
    /\ got[1].ret = FALSE
    /\ Cardinality(Closed(got[1].log)) = 1


====
